---------------------------- MODULE Spec2Model ----------------------------
(***************************************************************************)
(* Model of functions/crypto.py: the 6-digit transform swap_digits,        *)
(* encrypt_number, decrypt_number.                                         *)
(*                                                                         *)
(* A Python str is a sequence of characters.  A character is written as a  *)
(* one-character TLA+ string, or by its code point name when it is not     *)
(* ASCII.  A Python list is an object of a heap (a sequence of lists); a   *)
(* reference to it is its index in the heap.                               *)
(***************************************************************************)
EXTENDS Integers, Sequences, FiniteSets, TLC

VARIABLES
    number_str,   \* the string passed to encrypt_number / decrypt_number
    fn,           \* the function called on it: "none" before the call
    outcome,      \* how the call ended
    heap,         \* the list objects of the caller of swap_digits
    digits,       \* reference of the caller's list, the argument of swap_digits
    result,       \* reference swap_digits returned, 0 before the call
    before,       \* value of the caller's list when swap_digits was called
    history,      \* the calls made before the latest one, oldest first
    page,                    \* stacked_widget's current index
    number_entry,            \* text of EncryptPage.number_entry
    encrypted_number_entry,  \* text of DecryptPage.encrypted_number_entry
    pc,           \* where perform_encrypt / perform_decrypt stands
    dialog_result,\* the result the open ResultDialog was built with
    message_box,  \* text of the open QMessageBox, "" when there is none
    clipboard     \* text on the clipboard

swapVars == <<heap, digits, result, before>>

uiVars == <<page, number_entry, encrypted_number_entry, pc, dialog_result,
            message_box, clipboard>>

vars == <<number_str, fn, outcome, swapVars, history, uiVars>>

---------------------------------------------------------------------------
(* Bounds of the model. *)

\* longest candidate string that is not a run of 6 ASCII digits
MaxLen == 7
\* most calls made before the latest one in a series of calls
MaxCalls == 2
\* most calls made before the latest one when each result is passed back in
MaxRepeat == 9
\* elements of the lists handed to swap_digits directly are 0..MaxElem
MaxElem == 2
\* those lists have 5..MaxListLen elements
MaxListLen == 7

---------------------------------------------------------------------------
(* Characters and the str/int built-ins the code uses. *)

\* '0'..'9' in order: AsciiDigitChars[v + 1] is the digit of value v
AsciiDigitChars == <<"0", "1", "2", "3", "4", "5", "6", "7", "8", "9">>

AsciiDigits == {AsciiDigitChars[i] : i \in 1..10}

\* Unicode decimal digits (category Nd) outside ASCII: ARABIC-INDIC DIGIT
\* THREE and FULLWIDTH DIGIT NINE.  str.isdigit() is True, int() is the value.
DecimalDigits == {"U+0663", "U+FF19"}

\* Unicode digits that are not decimal: SUPERSCRIPT TWO, CIRCLED DIGIT ONE.
\* str.isdigit() is True, int() raises ValueError.
NonDecimalDigits == {"U+00B2", "U+2460"}

\* characters str.isdigit() is False for; "U+00E9" is a non-ASCII letter
NonDigits == {"a", " ", "-", "+", ".", "U+00E9"}

Chars == AsciiDigits \cup DecimalDigits \cup NonDecimalDigits \cup NonDigits

\* the characters c.isdigit() is True for
IsDigitChars == AsciiDigits \cup DecimalDigits \cup NonDecimalDigits

\* the characters int(c) returns for (it raises ValueError for the others)
IntChars == AsciiDigits \cup DecimalDigits

\* int(c) of each character it returns for
IntValue ==
    [c \in IntChars |->
        CASE c \in AsciiDigits -> (CHOOSE v \in 0..9 : AsciiDigitChars[v + 1] = c)
          [] c = "U+0663" -> 3
          [] c = "U+FF19" -> 9]

\* s.isdigit(): every character is a digit and there is at least one
isdigit(s) == Len(s) > 0 /\ \A i \in 1..Len(s) : s[i] \in IsDigitChars

\* whether int(c) returns
int_defined(c) == c \in IntChars

\* int(c)
int(c) == IntValue[c]

\* str(n) of a natural number: its decimal digits, most significant first
RECURSIVE str(_)
str(n) ==
    IF n < 10 THEN <<AsciiDigitChars[n + 1]>>
    ELSE str(n \div 10) \o <<AsciiDigitChars[(n % 10) + 1]>>

\* a slip: the digits joined and passed through str(int(...)), which drops
\* leading zeros
RECURSIVE join_int(_)
join_int(l) ==
    IF l = <<>> THEN <<>>
    ELSE IF Head(l) = 0 /\ Len(l) > 1 THEN join_int(Tail(l))
    ELSE [i \in 1..Len(l) |-> AsciiDigitChars[(l[i] % 10) + 1]]

\* "".join(map(str, l))
RECURSIVE join(_)
join(l) == IF l = <<>> THEN <<>> ELSE str(Head(l)) \o join(Tail(l))

---------------------------------------------------------------------------
(* How a call ends. *)

Pending == [kind |-> "pending", val |-> <<>>]
ReturnNone == [kind |-> "None", val |-> <<>>]
ReturnStr(s) == [kind |-> "str", val |-> s]
RaiseValueError == [kind |-> "ValueError", val |-> <<>>]
RaiseIndexError == [kind |-> "IndexError", val |-> <<>>]
ReturnList == [kind |-> "list", val |-> <<>>]

---------------------------------------------------------------------------
(* swap_digits *)

\* a slip: result = digits, no copy
list_copy_alias(h, d) == [heap |-> h, ref |-> d]

\* digits.copy(): a new list object with the same elements
list_copy(h, d) ==
    [heap |-> Append(h, SubSeq(h[d], 1, Len(h[d]))), ref |-> Len(h) + 1]

\* a slip: l[i] = l[j]; l[j] = l[i], the second assignment reads the new l[i]
swap_items_sequential(l, i, j) == [l EXCEPT ![i + 1] = l[j + 1]]

\* l[i], l[j] = l[j], l[i]  (0-based i, j): the right side is read first
swap_items(l, i, j) == [l EXCEPT ![i + 1] = l[j + 1], ![j + 1] = l[i + 1]]

\* a slip: the last swap written on indices 3 and 4 instead of 4 and 5
swap_digits_off_by_one(h, d) ==
    LET c == list_copy(h, d)
        r == c.ref
        l0 == c.heap[r]
    IN  IF Len(l0) < 3
        THEN [heap |-> c.heap, ref |-> 0]
        ELSE LET l1 == swap_items(l0, 0, 2)
             IN  IF Len(l1) < 4
                 THEN [heap |-> [c.heap EXCEPT ![r] = l1], ref |-> 0]
                 ELSE LET l2 == swap_items(l1, 1, 3)
                      IN  IF Len(l2) < 5
                          THEN [heap |-> [c.heap EXCEPT ![r] = l2], ref |-> 0]
                          ELSE [heap |-> [c.heap EXCEPT
                                            ![r] = swap_items(l2, 3, 4)],
                                ref |-> r]

\* swap_digits(digits) on heap h: the heap after the call and the reference
\* returned, 0 when an index is out of range and IndexError is raised (the
\* swaps made before it stay in the copy)
swap_digits(h, d) ==
    LET c == list_copy(h, d)
        r == c.ref
        l0 == c.heap[r]
    IN  IF Len(l0) < 3
        THEN [heap |-> c.heap, ref |-> 0]
        ELSE LET l1 == swap_items(l0, 0, 2)
             IN  IF Len(l1) < 4
                 THEN [heap |-> [c.heap EXCEPT ![r] = l1], ref |-> 0]
                 ELSE LET l2 == swap_items(l1, 1, 3)
                      IN  IF Len(l2) < 6
                          THEN [heap |-> [c.heap EXCEPT ![r] = l2], ref |-> 0]
                          ELSE [heap |-> [c.heap EXCEPT
                                            ![r] = swap_items(l2, 4, 5)],
                                ref |-> r]

\* the list swap_digits returns for a list value l held by the caller
swapped(l) ==
    LET s == swap_digits(<<l>>, 1) IN s.heap[s.ref]

---------------------------------------------------------------------------
(* encrypt_number, decrypt_number *)

\* the guard of both functions: s.isdigit() and len(s) == 6
valid(s) == isdigit(s) /\ Len(s) = 6

\* [int(d) for d in s] returns
parses(s) == \A i \in 1..Len(s) : int_defined(s[i])

\* a slip: digits is a module-level list that every call extends, so it
\* still holds the digits of the earlier calls that got past the guard
RECURSIVE digits_left_by(_)
digits_left_by(calls) ==
    IF calls = <<>> THEN <<>>
    ELSE LET a == Head(calls).arg
         IN  (IF isdigit(a) /\ Len(a) = 6 /\ \A i \in 1..6 : int_defined(a[i])
              THEN [i \in 1..6 |-> int(a[i])] ELSE <<>>)
             \o digits_left_by(Tail(calls))

parse_into_global(s) == digits_left_by(history) \o [i \in 1..Len(s) |-> int(s[i])]

\* [int(d) for d in s]
parse(s) == [i \in 1..Len(s) |-> int(s[i])]

\* a slip: the remainder left out
encrypt_digit_no_mod(d) == d + 7

\* a slip: the remainder taken by 9
encrypt_digit_mod_nine(d) == (d + 7) % 9

\* (d + 7) % 10
encrypt_digit(d) == (d + 7) % 10

\* a slip: the shift of encrypt_number copied
decrypt_digit_copied(d) == (d + 7) % 10

\* a slip: abs(d - 7) % 10
decrypt_digit_abs(d) == (IF d >= 7 THEN d - 7 ELSE 7 - d) % 10

\* (d - 7 + 10) % 10
decrypt_digit(d) == (d - 7 + 10) % 10

\* a slip: the call of swap_digits left out
encrypt_number_no_swap(s) ==
    IF ~valid(s) THEN ReturnNone
    ELSE IF ~parses(s) THEN RaiseValueError
    ELSE LET ds == parse(s)
             encrypted_digits == [i \in 1..Len(ds) |-> encrypt_digit(ds[i])]
         IN  ReturnStr(join(encrypted_digits))

encrypt_number(s) ==
    IF ~valid(s) THEN ReturnNone
    ELSE IF ~parses(s) THEN RaiseValueError
    ELSE LET ds == parse(s)
             encrypted_digits == [i \in 1..Len(ds) |-> encrypt_digit(ds[i])]
         IN  ReturnStr(join(swapped(encrypted_digits)))

\* a slip: the call of swap_digits left out
decrypt_number_no_swap(s) ==
    IF ~valid(s) THEN ReturnNone
    ELSE IF ~parses(s) THEN RaiseValueError
    ELSE LET ds == parse(s)
             decrypted_digits == [i \in 1..Len(ds) |-> decrypt_digit(ds[i])]
         IN  ReturnStr(join(decrypted_digits))

decrypt_number(s) ==
    IF ~valid(s) THEN ReturnNone
    ELSE IF ~parses(s) THEN RaiseValueError
    ELSE LET ds == swapped(parse(s))
             decrypted_digits == [i \in 1..Len(ds) |-> decrypt_digit(ds[i])]
         IN  ReturnStr(join(decrypted_digits))

---------------------------------------------------------------------------
(* The window as MainWindow.__init__ leaves it. *)

\* indices of the pages in stacked_widget, in the order they are added
MainPageIndex == 0
EncryptPageIndex == 1
DecryptPageIndex == 2

WindowShown ==
    /\ page = MainPageIndex
    /\ number_entry = <<>>
    /\ encrypted_number_entry = <<>>
    /\ pc = "idle"
    /\ dialog_result = <<>>
    /\ message_box = ""
    /\ clipboard = <<>>

---------------------------------------------------------------------------
(* The strings and lists the callers pass. *)

\* every string of 6 ASCII digits
SixDigitStrings == [1..6 -> AsciiDigits]

\* the string of n characters that holds c at position p, d at position q
\* and the ASCII digit b everywhere else
OddString(n, b, p, c, q, d) ==
    [i \in 1..n |-> IF i = q THEN d ELSE IF i = p THEN c ELSE b]

\* strings a caller passes in a series of calls: accepted ones, rejected
\* ones, and ones with digits outside ASCII
CallInputs ==
    { <<"1", "2", "3", "4", "5", "6">>, <<"0", "1", "8", "9", "3", "2">>,
      <<"0", "0", "0", "0", "0", "0">>, <<"1", "2", "3", "4", "5">>,
      <<"a", "a", "a", "1", "2", "3">>, <<>>,
      <<"1", "1", "1", "1", "1", "U+0663">>,
      <<"1", "1", "1", "1", "1", "U+00B2">> }

\* lists a caller hands to swap_digits
Lists == UNION { [1..n -> 0..MaxElem] : n \in 5..MaxListLen }

---------------------------------------------------------------------------
(* The calls of encrypt_number and decrypt_number. *)

Init ==
    /\ \/ \E n \in 0..MaxLen, b \in AsciiDigits :
             \E p, q \in 1..n, c, d \in (Chars \ AsciiDigits) \cup {b} :
                number_str = OddString(n, b, p, c, q, d)
       \/ number_str = <<>>
       \/ number_str \in SixDigitStrings
    /\ fn = "none"
    /\ outcome = Pending
    /\ heap = <<>>
    /\ digits = 0
    /\ result = 0
    /\ before = <<>>
    /\ history = <<>>
    /\ WindowShown

Encrypt ==
    /\ fn = "none"
    /\ fn' = "encrypt"
    /\ outcome' = encrypt_number(number_str)
    /\ UNCHANGED <<number_str, swapVars, history, uiVars>>

Decrypt ==
    /\ fn = "none"
    /\ fn' = "decrypt"
    /\ outcome' = decrypt_number(number_str)
    /\ UNCHANGED <<number_str, swapVars, history, uiVars>>

Next == Encrypt \/ Decrypt

Spec == Init /\ [][Next]_vars

---------------------------------------------------------------------------
(* A series of calls, as the pages make one per click. *)

\* the latest call as the caller saw it
LatestCall == [fn |-> fn, arg |-> number_str, outcome |-> outcome]

InitCalls ==
    /\ number_str \in CallInputs
    /\ fn = "none"
    /\ outcome = Pending
    /\ heap = <<>>
    /\ digits = 0
    /\ result = 0
    /\ before = <<>>
    /\ history = <<>>
    /\ WindowShown

\* the caller, done with a call, comes with the next string
SubmitNext ==
    /\ fn # "none"
    /\ Len(history) < MaxCalls
    /\ history' = Append(history, LatestCall)
    /\ number_str' \in CallInputs
    /\ fn' = "none"
    /\ outcome' = Pending
    /\ UNCHANGED <<swapVars, uiVars>>

NextCalls == Encrypt \/ Decrypt \/ SubmitNext

SpecCalls == InitCalls /\ [][NextCalls]_vars

---------------------------------------------------------------------------
(* encrypt_number called again and again, each time on its last result. *)

\* valid strings: a digit b everywhere but at two positions, which hold any
\* two digits
InitRepeat ==
    /\ \E b \in AsciiDigits, p, q \in 1..6, c, d \in AsciiDigits :
          number_str = OddString(6, b, p, c, q, d)
    /\ fn = "none"
    /\ outcome = Pending
    /\ heap = <<>>
    /\ digits = 0
    /\ result = 0
    /\ before = <<>>
    /\ history = <<>>
    /\ WindowShown

\* the caller passes the string encrypt_number returned to the next call
SubmitResult ==
    /\ fn = "encrypt"
    /\ outcome.kind = "str"
    /\ Len(history) < MaxRepeat
    /\ history' = Append(history, LatestCall)
    /\ number_str' = outcome.val
    /\ fn' = "none"
    /\ outcome' = Pending
    /\ UNCHANGED <<swapVars, uiVars>>

NextRepeat == Encrypt \/ SubmitResult

SpecRepeat == InitRepeat /\ [][NextRepeat]_vars

---------------------------------------------------------------------------
(* A direct call of swap_digits on a list the caller holds. *)

InitSwap ==
    /\ number_str = <<>>
    /\ fn = "none"
    /\ outcome = Pending
    /\ \E l \in Lists : heap = <<l>> /\ before = l
    /\ digits = 1
    /\ result = 0
    /\ history = <<>>
    /\ WindowShown

CallSwap ==
    /\ fn = "none"
    /\ fn' = "swap"
    /\ LET s == swap_digits(heap, digits)
       IN  /\ heap' = s.heap
           /\ result' = s.ref
           /\ outcome' = IF s.ref = 0 THEN RaiseIndexError ELSE ReturnList
    /\ UNCHANGED <<number_str, digits, before, history, uiVars>>

NextSwap == CallSwap

SpecSwap == InitSwap /\ [][NextSwap]_vars

---------------------------------------------------------------------------
(* The window: navigation, the two pages' handlers and the result dialog. *)

\* entry_field.setMaxLength(6)
EntryMaxLength == 6

\* the digits typed in this model
UiDigits == {"0", "3"}

\* other characters QIntValidator(0, 999999) lets into the field: a sign, a
\* group separator, a digit of the locale (ARABIC-INDIC DIGIT THREE)
EntryOddChars == {"+", ",", "U+0663"}

\* QMessageBox.critical's text
ErrorMessage == "Please enter a 6-digit number."

\* a slip: the result tested as a number, if int(result)
truthy_as_number(o) == o.kind = "str" /\ \E i \in 1..Len(o.val) : o.val[i] # "0"

\* if encrypted_result: None is false, a str is true unless it is empty
truthy(o) == o.kind = "str" /\ Len(o.val) > 0

InitUI ==
    /\ number_str = <<>>
    /\ fn = "none"
    /\ outcome = Pending
    /\ heap = <<>>
    /\ digits = 0
    /\ result = 0
    /\ before = <<>>
    /\ history = <<>>
    /\ WindowShown

\* a slip: the fields reset when going back
ShowMainPage_clears ==
    /\ pc = "idle"
    /\ page \in {EncryptPageIndex, DecryptPageIndex}
    /\ page' = MainPageIndex
    /\ number_entry' = <<>>
    /\ encrypted_number_entry' = <<>>
    /\ UNCHANGED <<number_str, fn, outcome, swapVars, history, pc,
                   dialog_result, message_box, clipboard>>

\* the Back button of the encrypt page or the decrypt page
ShowMainPage ==
    /\ pc = "idle"
    /\ page \in {EncryptPageIndex, DecryptPageIndex}
    /\ page' = MainPageIndex
    /\ UNCHANGED <<number_str, fn, outcome, swapVars, history, number_entry,
                   encrypted_number_entry, pc, dialog_result, message_box,
                   clipboard>>

\* the Encrypt button of the main page
ShowEncryptPage ==
    /\ pc = "idle"
    /\ page = MainPageIndex
    /\ page' = EncryptPageIndex
    /\ UNCHANGED <<number_str, fn, outcome, swapVars, history, number_entry,
                   encrypted_number_entry, pc, dialog_result, message_box,
                   clipboard>>

\* the Decrypt button of the main page
ShowDecryptPage ==
    /\ pc = "idle"
    /\ page = MainPageIndex
    /\ page' = DecryptPageIndex
    /\ UNCHANGED <<number_str, fn, outcome, swapVars, history, number_entry,
                   encrypted_number_entry, pc, dialog_result, message_box,
                   clipboard>>

\* the user edits the field of the encrypt page: at most EntryMaxLength
\* characters, digits but for the first one, which may be another character
\* the validator lets in
EditNumberEntry ==
    /\ pc = "idle"
    /\ page = EncryptPageIndex
    /\ \E n \in 0..EntryMaxLength, b \in UiDigits :
          \E c \in EntryOddChars \cup {b} :
             number_entry' = OddString(n, b, 1, c, 1, c)
    /\ UNCHANGED <<number_str, fn, outcome, swapVars, history, page,
                   encrypted_number_entry, pc, dialog_result, message_box,
                   clipboard>>

\* the user edits the field of the decrypt page
EditEncryptedNumberEntry ==
    /\ pc = "idle"
    /\ page = DecryptPageIndex
    /\ \E n \in 0..EntryMaxLength, b \in UiDigits :
          \E c \in EntryOddChars \cup {b} :
             encrypted_number_entry' = OddString(n, b, 1, c, 1, c)
    /\ UNCHANGED <<number_str, fn, outcome, swapVars, history, page,
                   number_entry, pc, dialog_result, message_box, clipboard>>

\* what both handlers do with what the core returned: the result dialog
\* (dialog.exec()) or the error box (QMessageBox.critical); an exception
\* leaves the handler
Present(o) ==
    IF o.kind \notin {"str", "None"}
    THEN /\ pc' = "aborted"
         /\ UNCHANGED <<dialog_result, message_box>>
    ELSE IF truthy(o)
    THEN /\ pc' = "exec"
         /\ dialog_result' = o.val
         /\ UNCHANGED message_box
    ELSE /\ pc' = "critical"
         /\ message_box' = ErrorMessage
         /\ UNCHANGED dialog_result

\* a slip: the field cleared before the dialog is shown
PerformEncrypt_clear_first ==
    /\ pc = "idle"
    /\ page = EncryptPageIndex
    /\ number_str' = number_entry
    /\ fn' = "encrypt"
    /\ outcome' = encrypt_number(number_entry)
    /\ Present(outcome')
    /\ number_entry' = <<>>
    /\ UNCHANGED <<swapVars, history, page, encrypted_number_entry, clipboard>>

\* EncryptPage.perform_encrypt, up to the modal dialog or error box
PerformEncrypt ==
    /\ pc = "idle"
    /\ page = EncryptPageIndex
    /\ number_str' = number_entry
    /\ fn' = "encrypt"
    /\ outcome' = encrypt_number(number_entry)
    /\ Present(outcome')
    /\ UNCHANGED <<swapVars, history, page, number_entry,
                   encrypted_number_entry, clipboard>>

\* DecryptPage.perform_decrypt, up to the modal dialog or error box
PerformDecrypt ==
    /\ pc = "idle"
    /\ page = DecryptPageIndex
    /\ number_str' = encrypted_number_entry
    /\ fn' = "decrypt"
    /\ outcome' = decrypt_number(encrypted_number_entry)
    /\ Present(outcome')
    /\ UNCHANGED <<swapVars, history, page, number_entry,
                   encrypted_number_entry, clipboard>>

\* a slip: self.close() left out
CopyToClipboard_stays_open ==
    /\ pc = "exec"
    /\ clipboard' = dialog_result
    /\ UNCHANGED <<number_str, fn, outcome, swapVars, history, page,
                   number_entry, encrypted_number_entry, pc, dialog_result,
                   message_box>>

\* ResultDialog.copy_to_clipboard(result): the Copy button
CopyToClipboard ==
    /\ pc = "exec"
    /\ clipboard' = dialog_result
    /\ pc' = "after_exec"
    /\ UNCHANGED <<number_str, fn, outcome, swapVars, history, page,
                   number_entry, encrypted_number_entry, dialog_result,
                   message_box>>

\* ResultDialog.mousePressEvent: a click on the dialog outside the button
DialogMousePress ==
    /\ pc = "exec"
    /\ pc' = "after_exec"
    /\ UNCHANGED <<number_str, fn, outcome, swapVars, history, page,
                   number_entry, encrypted_number_entry, dialog_result,
                   message_box, clipboard>>

\* the user dismisses the error box: QMessageBox.critical returns
CloseMessageBox ==
    /\ pc = "critical"
    /\ pc' = "after_critical"
    /\ message_box' = ""
    /\ UNCHANGED <<number_str, fn, outcome, swapVars, history, page,
                   number_entry, encrypted_number_entry, dialog_result,
                   clipboard>>

\* perform_encrypt after the dialog or the error box: number_entry.clear(),
\* and the handler returns
FinishPerformEncrypt ==
    /\ pc \in {"after_exec", "after_critical"}
    /\ fn = "encrypt"
    /\ number_entry' = <<>>
    /\ pc' = "idle"
    /\ number_str' = <<>>
    /\ fn' = "none"
    /\ outcome' = Pending
    /\ dialog_result' = <<>>
    /\ UNCHANGED <<swapVars, history, page, encrypted_number_entry,
                   message_box, clipboard>>

\* perform_decrypt after the dialog or the error box
FinishPerformDecrypt ==
    /\ pc \in {"after_exec", "after_critical"}
    /\ fn = "decrypt"
    /\ encrypted_number_entry' = <<>>
    /\ pc' = "idle"
    /\ number_str' = <<>>
    /\ fn' = "none"
    /\ outcome' = Pending
    /\ dialog_result' = <<>>
    /\ UNCHANGED <<swapVars, history, page, number_entry, message_box,
                   clipboard>>

NextUI ==
    \/ ShowMainPage
    \/ ShowEncryptPage
    \/ ShowDecryptPage
    \/ EditNumberEntry
    \/ EditEncryptedNumberEntry
    \/ PerformEncrypt
    \/ PerformDecrypt
    \/ CopyToClipboard
    \/ DialogMousePress
    \/ CloseMessageBox
    \/ FinishPerformEncrypt
    \/ FinishPerformDecrypt

SpecUI == InitUI /\ [][NextUI]_vars

---------------------------------------------------------------------------
(* Properties of the transform. *)

\* s is a string of exactly 6 ASCII decimal digits
IsSixDigits(s) == Len(s) = 6 /\ \A i \in 1..6 : s[i] \in AsciiDigits

\* the value 0..9 of each ASCII digit
DigitValue ==
    [c \in AsciiDigits |-> CHOOSE v \in 0..9 : AsciiDigitChars[v + 1] = c]

\* the value 0..9 of the ASCII digit at 0-based position k of s
DigitAt(s, k) == DigitValue[s[k + 1]]

\* the string whose digit at 0-based position k is (digit of s at perm[k]) + shift mod 10
Shifted(s, perm, shift) ==
    [i \in 1..6 |-> AsciiDigitChars[((DigitAt(s, perm[i]) + shift) % 10) + 1]]

\* source position of each output position under the swap (0-based)
SwapPerm == <<2, 3, 0, 1, 5, 4>>

\* how many times e occurs in the sequence l
Count(l, e) == Cardinality({i \in 1..Len(l) : l[i] = e})

\* C1: for every string s of exactly 6 ASCII digits, decrypt_number applied to
\* what encrypt_number(s) returned gives s back, leading zeros included.
C1_DecryptInvertsEncrypt ==
    (fn = "encrypt" /\ IsSixDigits(number_str)) =>
        /\ outcome.kind = "str"
        /\ decrypt_number(outcome.val) = ReturnStr(number_str)

C1_Witness ==
    /\ fn = "encrypt"
    /\ number_str = <<"0", "0", "7", "3", "9", "1">>
    /\ outcome.kind = "str"
    /\ decrypt_number(outcome.val) = ReturnStr(number_str)

\* C2: for every string s of exactly 6 ASCII digits, whether or not some
\* encryption produced it, encrypt_number applied to what decrypt_number(s)
\* returned gives s back.
C2_EncryptInvertsDecrypt ==
    (fn = "decrypt" /\ IsSixDigits(number_str)) =>
        /\ outcome.kind = "str"
        /\ encrypt_number(outcome.val) = ReturnStr(number_str)

C2_Witness ==
    /\ fn = "decrypt"
    /\ number_str = <<"0", "9", "0", "2", "4", "6">>
    /\ outcome.kind = "str"
    /\ encrypt_number(outcome.val) = ReturnStr(number_str)

\* C3: encrypt_number and decrypt_number return None for every string that
\* is not exactly 6 characters long or holds a character other than '0'..'9'.
C3_RejectsAllButSixAsciiDigits ==
    (fn # "none" /\ ~IsSixDigits(number_str)) => outcome = ReturnNone

\* C4: for every string of exactly 6 ASCII digits both functions return a
\* string of exactly 6 characters, each in '0'..'9' (no digit is dropped).
C4_TotalOnSixDigits ==
    (fn # "none" /\ IsSixDigits(number_str)) =>
        /\ outcome.kind = "str"
        /\ IsSixDigits(outcome.val)

C4_Witness ==
    /\ fn = "encrypt"
    /\ number_str = <<"3", "3", "3", "3", "0", "0">>
    /\ outcome = ReturnStr(<<"0", "0", "0", "0", "7", "7">>)

\* C5: whatever the input string, a call ends either with a returned string
\* of 6 digits or with None returned; it never ends any other way.
C5_OnlyTwoOutcomes ==
    fn # "none" =>
        \/ outcome = ReturnNone
        \/ outcome.kind = "str" /\ IsSixDigits(outcome.val)

\* C6: for every valid s, encrypt_number(s) holds at positions 0..5 the
\* digits (s[2]+7), (s[3]+7), (s[0]+7), (s[1]+7), (s[5]+7), (s[4]+7) mod 10.
C6_EncryptFormula ==
    (fn = "encrypt" /\ IsSixDigits(number_str)) =>
        outcome = ReturnStr(Shifted(number_str, SwapPerm, 7))

C6_Witness ==
    /\ fn = "encrypt"
    /\ number_str = <<"1", "2", "3", "4", "5", "6">>
    /\ outcome = ReturnStr(Shifted(number_str, SwapPerm, 7))
    /\ outcome.val = <<"0", "1", "8", "9", "3", "2">>

\* C7: for every valid s, decrypt_number(s) holds at positions 0..5 the
\* digits (s[2]+3), (s[3]+3), (s[0]+3), (s[1]+3), (s[5]+3), (s[4]+3) mod 10,
\* and its per-digit step (d - 7 + 10) mod 10 is (d + 3) mod 10 for d in 0..9.
C7_DecryptFormula ==
    (fn = "decrypt" /\ IsSixDigits(number_str)) =>
        /\ outcome = ReturnStr(Shifted(number_str, SwapPerm, 3))
        /\ \A d \in 0..9 : decrypt_digit(d) = (d + 3) % 10

C7_Witness ==
    /\ fn = "decrypt"
    /\ number_str = <<"0", "1", "8", "9", "3", "2">>
    /\ outcome = ReturnStr(Shifted(number_str, SwapPerm, 3))
    /\ outcome.val = <<"1", "2", "3", "4", "5", "6">>

\* C8: for every 6-element x, swap_digits(x) is a 6-element r with r[0]=x[2],
\* r[2]=x[0], r[1]=x[3], r[3]=x[1], r[4]=x[5], r[5]=x[4], of the same length
\* and with the same multiset of elements as x.
C8_SwapPositions ==
    (fn = "swap" /\ Len(before) = 6) =>
        /\ outcome = ReturnList
        /\ result \in DOMAIN heap
        /\ LET r == heap[result]
               x == before
           IN  /\ Len(r) = 6
               /\ r[1] = x[3] /\ r[3] = x[1]
               /\ r[2] = x[4] /\ r[4] = x[2]
               /\ r[5] = x[6] /\ r[6] = x[5]
               /\ \A e \in 0..MaxElem : Count(r, e) = Count(x, e)

C8_Witness ==
    /\ fn = "swap"
    /\ before = <<0, 1, 2, 0, 1, 2>>
    /\ result # 0
    /\ heap[result] = <<2, 0, 0, 1, 2, 1>>

\* C9: swap_digits is an involution: for every 6-element x, swap_digits
\* applied to what swap_digits(x) returned gives x.
C9_SwapInvolution ==
    (fn = "swap" /\ Len(before) = 6) =>
        /\ result \in DOMAIN heap
        /\ swapped(heap[result]) = before

C9_Witness ==
    /\ fn = "swap"
    /\ before = <<0, 1, 2, 2, 1, 0>>
    /\ result # 0
    /\ heap[result] # before
    /\ swapped(heap[result]) = before

\* C10: swap_digits never mutates its argument: after the call the caller's
\* list holds the elements it held before, in the same order, and the list
\* returned is another object than the argument.
C10_SwapLeavesArgument ==
    fn = "swap" =>
        /\ heap[digits] = before
        /\ result # digits

C10_Witness ==
    /\ fn = "swap"
    /\ before = <<0, 1, 2, 2, 1, 0>>
    /\ heap[digits] = before
    /\ result # 0 /\ result # digits
    /\ heap[result] # heap[digits]

C12_Vector123456 ==
    /\ (fn = "encrypt" /\ number_str = <<"1", "2", "3", "4", "5", "6">>) =>
            outcome = ReturnStr(<<"0", "1", "8", "9", "3", "2">>)
    /\ (fn = "decrypt" /\ number_str = <<"0", "1", "8", "9", "3", "2">>) =>
            outcome = ReturnStr(<<"1", "2", "3", "4", "5", "6">>)

C12_Witness ==
    /\ fn = "decrypt"
    /\ number_str = <<"0", "1", "8", "9", "3", "2">>
    /\ outcome.kind = "str"
    /\ Len(outcome.val) = 6
    /\ outcome.val[1] = "1" /\ outcome.val[6] = "6"

\* the string made of six copies of the digit of value v
SixOf(v) == [i \in 1..6 |-> AsciiDigitChars[v + 1]]

\* C13: for every digit d, encrypt_number of six copies of d is six copies
\* of (d+7) mod 10 and decrypt_number of six copies of d is six copies of
\* (d+3) mod 10; so "000000" -> "777777" -> "000000" and "999999" ->
\* "666666" -> "999999".
C13_UniformStrings ==
    (/\ fn \in {"encrypt", "decrypt"}
     /\ IsSixDigits(number_str)
     /\ \A i \in 2..6 : number_str[i] = number_str[1]) =>
        LET d == DigitAt(number_str, 0)
        IN  /\ fn = "encrypt" => outcome = ReturnStr(SixOf((d + 7) % 10))
            /\ fn = "decrypt" => outcome = ReturnStr(SixOf((d + 3) % 10))
            /\ (fn = "encrypt" /\ d = 0) => outcome.val = SixOf(7)
            /\ (fn = "decrypt" /\ d = 7) => outcome.val = SixOf(0)
            /\ (fn = "encrypt" /\ d = 9) => outcome.val = SixOf(6)
            /\ (fn = "decrypt" /\ d = 6) => outcome.val = SixOf(9)

C13_Witness ==
    /\ fn = "encrypt"
    /\ number_str = SixOf(9)
    /\ outcome = ReturnStr(SixOf(6))

\* the positional swap applied to a string of 6 characters
SwapString(t) == [i \in 1..6 |-> t[SwapPerm[i] + 1]]

\* every digit of a string of 6 ASCII digits shifted by k modulo 10
ShiftString(t, k) ==
    [i \in 1..6 |-> AsciiDigitChars[((DigitValue[t[i]] + k) % 10) + 1]]

\* the entry field of the page whose handler is running
HandlerEntry == IF fn = "encrypt" THEN number_entry ELSE encrypted_number_entry

\* what the core returns for the text the running handler submitted
CoreResult ==
    IF fn = "encrypt" THEN encrypt_number(number_str)
    ELSE decrypt_number(number_str)

\* C14: on every click of the Encrypt (resp. Decrypt) action button exactly
\* one of two things is presented: the result dialog showing the string that
\* encrypt_number (resp. decrypt_number) returned, if and only if the core
\* returned a result, or the error box "Please enter a 6-digit number.", if
\* and only if the core returned None; no click ends in an exception, and no
\* returned string ("000000" included) is treated as a failure.
C14_ExactlyOnePresented ==
    /\ pc # "aborted"
    /\ (pc = "idle") <=> (fn = "none")
    /\ (pc \in {"exec", "critical"}) =>
          /\ outcome = CoreResult
          /\ (pc = "exec") <=> (outcome.kind = "str")
          /\ (pc = "critical") <=> (outcome = ReturnNone)
    /\ (pc = "exec") => (dialog_result = outcome.val /\ message_box = "")
    /\ (pc = "critical") <=> (message_box = ErrorMessage)
    /\ message_box \in {"", ErrorMessage}

C14_Witness ==
    /\ pc = "exec"
    /\ fn = "encrypt"
    /\ number_str = SixOf(3)
    /\ dialog_result = SixOf(0)

\* C15: the page's field is cleared after a success and after an error: when
\* a handler finishes, its page's field is empty; while the result dialog or
\* the error box is open the field still holds the submitted text, and it is
\* cleared only once the dialog or the box has been closed.
C15_ClearedOnlyAfterClose ==
    [][ /\ (pc \in {"exec", "critical", "after_exec", "after_critical"})
              => (HandlerEntry = number_str)
        /\ (pc # "idle" /\ pc' = "idle") =>
              (IF fn = "encrypt" THEN number_entry' = <<>>
               ELSE encrypted_number_entry' = <<>>)
        /\ (pc # "idle" /\ <<number_entry, encrypted_number_entry>>'
                             # <<number_entry, encrypted_number_entry>>)
              => (pc \in {"after_exec", "after_critical"} /\ pc' = "idle")
        /\ (pc = "idle" /\ pc' # "idle") =>
              <<number_entry, encrypted_number_entry>>'
                  = <<number_entry, encrypted_number_entry>>
      ]_vars

C15_Witness ==
    /\ pc = "after_exec"
    /\ fn = "decrypt"
    /\ encrypted_number_entry = SixOf(3)
    /\ dialog_result = SixOf(6)

\* C16: navigation is a three-state machine: the page index is always 0, 1
\* or 2 and starts at 0; the main page's Encrypt and Decrypt buttons lead to
\* pages 1 and 2; the Back button of page 1 or 2 leads to page 0; no step
\* goes from page 1 to page 2 or back; a change of page leaves the text of
\* both fields unchanged.
C16_ThreePages ==
    /\ page = 0
    /\ [][ /\ page \in {0, 1, 2} /\ page' \in {0, 1, 2}
           /\ ShowEncryptPage => (page = 0 /\ page' = 1)
           /\ ShowDecryptPage => (page = 0 /\ page' = 2)
           /\ ShowMainPage => (page \in {1, 2} /\ page' = 0)
           /\ (page' # page) => (page = 0 \/ page' = 0)
           /\ (page' # page) =>
                 /\ number_entry' = number_entry
                 /\ encrypted_number_entry' = encrypted_number_entry
         ]_vars

C16_Witness ==
    /\ page = 2
    /\ number_entry = SixOf(3)
    /\ encrypted_number_entry = <<"0", "0">>

\* C17: in the result dialog, Copy sets the clipboard to exactly the string
\* the dialog shows and closes the dialog; a click elsewhere on the dialog
\* closes it and leaves the clipboard unchanged; either way the dialog ends
\* closed, and nothing else changes the clipboard.
C17_CopyOrDismiss ==
    [][ /\ CopyToClipboard =>
              (clipboard' = dialog_result /\ pc = "exec" /\ pc' = "after_exec")
        /\ DialogMousePress =>
              (clipboard' = clipboard /\ pc = "exec" /\ pc' = "after_exec")
        /\ (pc = "exec") => (pc' = "after_exec" /\ dialog_result' = dialog_result)
        /\ (clipboard' # clipboard) =>
              (pc = "exec" /\ clipboard' = dialog_result
                 /\ dialog_result = outcome.val)
      ]_vars

C17_Witness ==
    /\ pc = "after_exec"
    /\ clipboard = SixOf(7)
    /\ dialog_result = SixOf(7)
    /\ number_entry = SixOf(0)

\* C18: the shift and the swap commute: for every valid s, encrypt_number(s)
\* is the swap applied first and the +7 shift second, and decrypt_number(s)
\* is the -7 shift applied first and the swap second.
C18_ShiftAndSwapCommute ==
    IsSixDigits(number_str) =>
        /\ fn = "encrypt" =>
              outcome = ReturnStr(ShiftString(SwapString(number_str), 7))
        /\ fn = "decrypt" =>
              outcome = ReturnStr(SwapString(ShiftString(number_str, 0 - 7)))

C18_Witness ==
    /\ fn = "decrypt"
    /\ number_str = <<"9", "0", "1", "2", "3", "4">>
    /\ outcome = ReturnStr(SwapString(ShiftString(number_str, 0 - 7)))
    /\ outcome.val = <<"4", "5", "2", "3", "7", "6">>

\* C19: for every valid s, encrypt_number(s) differs from s, decrypt_number(s)
\* differs from s, and encrypt_number(s) differs from decrypt_number(s).
C19_NoFixedPoint ==
    IsSixDigits(number_str) =>
        /\ fn = "encrypt" =>
              /\ outcome.kind = "str"
              /\ outcome.val # number_str
              /\ outcome # decrypt_number(number_str)
        /\ fn = "decrypt" =>
              /\ outcome.kind = "str"
              /\ outcome.val # number_str

C19_Witness ==
    /\ fn = "encrypt"
    /\ number_str = SixOf(5)
    /\ outcome = ReturnStr(SixOf(2))
    /\ decrypt_number(number_str) = ReturnStr(SixOf(8))

\* C20: repeated encryption is cyclic: encrypt_number applied twice in
\* succession gives the string with every digit increased by 4 modulo 10 and
\* no change of positions, applied ten times it gives the string back, and
\* applied nine times it gives what decrypt_number gives.
C20_RepeatedEncryption ==
    (fn = "encrypt" /\ history # <<>>) =>
        LET n == Len(history)
            s == history[1].arg
        IN  /\ outcome = ReturnStr(ShiftString(history[n].arg, 4))
            /\ n = 8 => outcome = decrypt_number(s)
            /\ n = 9 => outcome = ReturnStr(s)

C20_Witness ==
    /\ fn = "encrypt"
    /\ Len(history) = 9
    /\ history[1].arg = <<"0", "0", "0", "0", "4", "2">>
    /\ history[2].arg = <<"7", "7", "7", "7", "9", "1">>
    /\ outcome = ReturnStr(history[1].arg)

=============================================================================
